---------------------------- MODULE Spec2Model ----------------------------
(***************************************************************************)
(* Model of src/main.py: load_data, smooth_data, the four chart renderers  *)
(* and the orchestrator generate_report, together with the two pieces of   *)
(* ambient state they act on: the filesystem (output directory and chart   *)
(* files) and pyplot's process-wide figure stack.                          *)
(***************************************************************************)
EXTENDS Integers, Sequences, FiniteSets

(***************************************************************************)
(* Numbers.  A float is a triple <<kind, a, b>>:                           *)
(*   <<"rat", n, d>>  the rational n/d                                     *)
(*   <<"zs", n, r>>   the value n / sqrt(r)   (z-scores)                   *)
(*   <<"nan", 0, 0>>  NaN                                                  *)
(***************************************************************************)
Num(v) == <<"rat", v, 1>>
Rat(n, d) == <<"rat", n, d>>
NaN == <<"nan", 0, 0>>
Lift(s) == [i \in 1..Len(s) |-> Num(s[i])]

RECURSIVE SumTo(_, _, _)
SumTo(s, lo, hi) == IF lo > hi THEN 0 ELSE s[lo][2] + SumTo(s, lo + 1, hi)

RECURSIVE SumSqTo(_, _, _)
SumSqTo(s, lo, hi) == IF lo > hi THEN 0 ELSE s[lo][2] * s[lo][2] + SumSqTo(s, lo + 1, hi)

(***************************************************************************)
(* Tabular datasets: a function from the column names present to series.   *)
(***************************************************************************)
Columns == {"time", "voltage", "frequency", "impedance", "2theta", "intensity", "cycle", "capacity"}

TableA ==
  [c \in Columns |->
     CASE c = "time"      -> Lift(<<0, 1, 2, 3>>)
       [] c = "voltage"   -> Lift(<<3, 5, 4, 4>>)
       [] c = "frequency" -> Lift(<<1, 10, 100, 1000>>)
       [] c = "impedance" -> Lift(<<9, 7, 8, 6>>)
       [] c = "2theta"    -> Lift(<<10, 20, 30, 40>>)
       [] c = "intensity" -> Lift(<<2, 6, 1, 2>>)
       [] c = "cycle"     -> Lift(<<1, 2, 3, 4>>)
       [] c = "capacity"  -> Lift(<<8, 8, 7, 5>>)]

\* three rows, constant voltage (the z-score of a constant series is NaN)
TableB ==
  [c \in Columns |->
     CASE c = "time"      -> Lift(<<0, 1, 2>>)
       [] c = "voltage"   -> Lift(<<4, 4, 4>>)
       [] c = "frequency" -> Lift(<<1, 10, 100>>)
       [] c = "impedance" -> Lift(<<5, 6, 8>>)
       [] c = "2theta"    -> Lift(<<10, 20, 30>>)
       [] c = "intensity" -> Lift(<<1, 7, 1>>)
       [] c = "cycle"     -> Lift(<<1, 2, 3>>)
       [] c = "capacity"  -> Lift(<<9, 8, 8>>)]

Without(t, c) == [k \in (DOMAIN t) \ {c} |-> t[k]]

\* what a lenient reader returns for content of another format: a table
\* with none of the expected columns
GarbageTable == [k \in {} |-> <<>>]

(***************************************************************************)
(* Input files (never written by the program).                             *)
(***************************************************************************)
InputPaths == {"missing.csv", "a.csv", "a.xlsx", "a.json", "b.csv",
               "no_time.csv", "no_voltage.csv", "no_frequency.csv",
               "no_impedance.csv", "no_2theta.csv", "no_capacity.csv"}

InputFile(path) ==
  CASE path = "missing.csv"      -> [exists |-> FALSE, fmt |-> "csv",   table |-> GarbageTable]
    [] path = "a.csv"            -> [exists |-> TRUE,  fmt |-> "csv",   table |-> TableA]
    [] path = "a.xlsx"           -> [exists |-> TRUE,  fmt |-> "excel", table |-> TableA]
    [] path = "a.json"           -> [exists |-> TRUE,  fmt |-> "json",  table |-> TableA]
    [] path = "b.csv"            -> [exists |-> TRUE,  fmt |-> "csv",   table |-> TableB]
    [] path = "no_time.csv"      -> [exists |-> TRUE,  fmt |-> "csv",   table |-> Without(TableA, "time")]
    [] path = "no_voltage.csv"   -> [exists |-> TRUE,  fmt |-> "csv",   table |-> Without(TableA, "voltage")]
    [] path = "no_frequency.csv" -> [exists |-> TRUE,  fmt |-> "csv",   table |-> Without(TableA, "frequency")]
    [] path = "no_impedance.csv" -> [exists |-> TRUE,  fmt |-> "csv",   table |-> Without(TableA, "impedance")]
    [] path = "no_2theta.csv"    -> [exists |-> TRUE,  fmt |-> "csv",   table |-> Without(TableA, "2theta")]
    [] path = "no_capacity.csv"  -> [exists |-> TRUE,  fmt |-> "csv",   table |-> Without(TableA, "capacity")]

NoError == "none"

(***************************************************************************)
(* load_data                                                               *)
(***************************************************************************)
supported_formats == [f \in {"csv", "excel", "json"} |->
                        CASE f = "csv" -> "pd.read_csv"
                          [] f = "excel" -> "pd.read_excel"
                          [] f = "json" -> "pd.read_json"]

FormatTags == DOMAIN supported_formats \cup {"xml"}

\* The outcomes of one reader on one path: the table when the content has
\* the reader's format; an error when the path does not exist; for content
\* of another format either a parse error or a table of garbage columns.
Reader(reader, path) ==
  LET f == InputFile(path) IN
  IF ~f.exists THEN {[err |-> "FileNotFoundError", value |-> GarbageTable]}
  ELSE IF supported_formats[f.fmt] = reader THEN {[err |-> NoError, value |-> f.table]}
  ELSE {[err |-> "ParserError", value |-> GarbageTable],
        [err |-> NoError, value |-> GarbageTable]}

\* variant: an unknown format tag falls back to the csv reader
load_data_default_csv(file_path, file_format) ==
  LET reader == IF file_format \in DOMAIN supported_formats
                THEN supported_formats[file_format] ELSE supported_formats["csv"] IN
  {[err |-> r.err, value |-> r.value, calls |-> <<reader>>,
    printed |-> IF r.err = NoError THEN <<>> ELSE <<"Error reading file">>]
     : r \in Reader(reader, file_path)}

\* Set of outcomes [err, value, calls, printed]; calls lists the readers invoked.
load_data(file_path, file_format) ==
  IF file_format \notin DOMAIN supported_formats
  THEN {[err |-> "ValueError:unsupported_format", value |-> GarbageTable,
         calls |-> <<>>, printed |-> <<>>]}
  ELSE LET reader == supported_formats[file_format] IN
       {[err |-> r.err, value |-> r.value, calls |-> <<reader>>,
         printed |-> IF r.err = NoError THEN <<>> ELSE <<"Error reading file">>]
          : r \in Reader(reader, file_path)}

(***************************************************************************)
(* smooth_data                                                             *)
(***************************************************************************)
MethodTags == {"savgol", "moving_average", "zscore", "median"}

\* scipy.signal.savgol_filter, mode="interp": the window must fit in the
\* series and exceed the polynomial order.  Interior points are the centre
\* value of the least-squares polynomial over the window; the first and
\* the last halflen points are read off the polynomial fitted to the first
\* and the last window.  Closed forms for windows 1 and 3.
savgol_valid(x, window_length, polyorder) ==
  /\ window_length <= Len(x)
  /\ polyorder < window_length

savgol_filter(x, window_length, polyorder) ==
  LET n == Len(x) IN
  IF window_length = 1 \/ polyorder = 2 THEN x
  ELSE [i \in 1..n |->
          IF polyorder = 0
          THEN LET c == IF i = 1 THEN 2 ELSE IF i = n THEN n - 1 ELSE i
               IN  Rat(SumTo(x, c - 1, c + 1), 3)
          ELSE IF i = 1 THEN Rat(5 * x[1][2] + 2 * x[2][2] - x[3][2], 6)
          ELSE IF i = n THEN Rat(5 * x[n][2] + 2 * x[n-1][2] - x[n-2][2], 6)
          ELSE Rat(2 * SumTo(x, i - 1, i + 1), 6)]

\* pandas Series.rolling(window).mean(): trailing window, NaN until full
rolling_mean(x, window) ==
  [i \in 1..Len(x) |-> IF i < window THEN NaN ELSE Rat(SumTo(x, i - window + 1, i), window)]

\* scipy.stats.zscore (ddof = 0): (x - mean) / std = (n x - S) / sqrt(n SS - S^2)
zscore(x) ==
  LET n == Len(x)
      S == SumTo(x, 1, n)
      r == n * SumSqTo(x, 1, n) - S * S
  IN  [i \in 1..n |-> IF r = 0 THEN NaN ELSE <<"zs", n * x[i][2] - S, r>>]

\* variant: an unknown method tag returns the series as it is
smooth_data_passthrough(data, method, window_size, poly_order) ==
  IF method = "savgol"
  THEN IF savgol_valid(data, window_size, poly_order)
       THEN [err |-> NoError, value |-> savgol_filter(data, window_size, poly_order),
             calls |-> <<"savgol_filter">>]
       ELSE [err |-> "ValueError:savgol_filter", value |-> <<>>, calls |-> <<"savgol_filter">>]
  ELSE IF method = "moving_average"
  THEN [err |-> NoError, value |-> rolling_mean(data, window_size), calls |-> <<"rolling.mean">>]
  ELSE IF method = "zscore"
  THEN [err |-> NoError, value |-> zscore(data), calls |-> <<"stats.zscore">>]
  ELSE [err |-> NoError, value |-> data, calls |-> <<>>]

\* Outcome [err, value, calls]; calls lists the transforms invoked.
smooth_data(data, method, window_size, poly_order) ==
  IF method = "savgol"
  THEN IF savgol_valid(data, window_size, poly_order)
       THEN [err |-> NoError, value |-> savgol_filter(data, window_size, poly_order),
             calls |-> <<"savgol_filter">>]
       ELSE [err |-> "ValueError:savgol_filter", value |-> <<>>, calls |-> <<"savgol_filter">>]
  ELSE IF method = "moving_average"
  THEN [err |-> NoError, value |-> rolling_mean(data, window_size), calls |-> <<"rolling.mean">>]
  ELSE IF method = "zscore"
  THEN [err |-> NoError, value |-> zscore(data), calls |-> <<"stats.zscore">>]
  ELSE [err |-> "ValueError:unsupported_method", value |-> <<>>, calls |-> <<>>]

(***************************************************************************)
(* pyplot's process-wide state: the stack of open figures, the last one    *)
(* being the current figure.                                               *)
(***************************************************************************)
EmptyFig == [title |-> "", xlabel |-> "", ylabel |-> "", xscale |-> "linear",
             grid |-> FALSE, legend |-> FALSE, lines |-> <<>>]

RECURSIVE MaxNum(_)
MaxNum(F) == IF F = <<>> THEN 0
             ELSE LET m == MaxNum(Tail(F)) IN IF Head(F).num > m THEN Head(F).num ELSE m

\* plt.figure(): a new empty figure becomes the current one
plt_figure(F) == Append(F, [num |-> MaxNum(F) + 1, fig |-> EmptyFig])

\* plt.gcf(): the current figure, created when none is open
gcf(F) == IF F = <<>> THEN plt_figure(F) ELSE F

SetCurrent(F, fig) == [gcf(F) EXCEPT ![Len(gcf(F))].fig = fig]
Current(F) == gcf(F)[Len(gcf(F))].fig

plt_plot(F, x, y, label, color) ==
  SetCurrent(F, [Current(F) EXCEPT !.lines = Append(@, [x |-> x, y |-> y, label |-> label, color |-> color])])
plt_xscale(F, s) == SetCurrent(F, [Current(F) EXCEPT !.xscale = s])
plt_xlabel(F, s) == SetCurrent(F, [Current(F) EXCEPT !.xlabel = s])
plt_ylabel(F, s) == SetCurrent(F, [Current(F) EXCEPT !.ylabel = s])
plt_title(F, s)  == SetCurrent(F, [Current(F) EXCEPT !.title = s])
plt_grid(F, b)   == SetCurrent(F, [Current(F) EXCEPT !.grid = b])
plt_legend(F)    == SetCurrent(F, [Current(F) EXCEPT !.legend = TRUE])

\* plt.close(): the current figure is destroyed, the one below it becomes current
plt_close(F) == IF F = <<>> THEN F ELSE SubSeq(F, 1, Len(F) - 1)

(***************************************************************************)
(* Filesystem.  A path is <<directory, name>>; "." always exists, the      *)
(* state of the output directory's path is D \in {"absent","dir","file"}.  *)
(* The chart files are a function from the existing paths to contents.     *)
(***************************************************************************)
OutputDir == "output"
Cwd == "."

os_path_exists(D) == D # "absent"
os_path_join(dir, name) == <<dir, name>>

DirUsable(D, path) == path[1] = Cwd \/ D = "dir"

\* the error of opening path for writing
OpenError(D, path) == IF D = "absent" THEN "FileNotFoundError" ELSE "NotADirectoryError"

WriteFile(Fs, path, content) ==
  [q \in (DOMAIN Fs) \cup {path} |-> IF q = path THEN content ELSE Fs[q]]

\* plt.savefig(path): the current figure's picture replaces the file
plt_savefig(F, Fs, path) == WriteFile(Fs, path, Current(F))

(***************************************************************************)
(* The four renderers.  Outcome: [figs, files, err, wrote].                *)
(***************************************************************************)
Raised(F, Fs, e) == [figs |-> F, files |-> Fs, err |-> e, wrote |-> {}]
Returned(F, Fs, path) == [figs |-> F, files |-> Fs, err |-> NoError, wrote |-> {path}]

KeyError(c) == "KeyError:" \o c

\* variant: the y column is taken from the impedance renderer
plot_voltage_curve_impedance_column(F, D, Fs, data, output_file) ==
  LET f1 == plt_figure(F) IN
  IF "time" \notin DOMAIN data THEN Raised(f1, Fs, KeyError("time"))
  ELSE IF "impedance" \notin DOMAIN data THEN Raised(f1, Fs, KeyError("impedance"))
  ELSE LET f2 == plt_plot(f1, data["time"], data["impedance"], "Voltage", "b")
           f3 == plt_xlabel(f2, "Time (s)")
           f4 == plt_ylabel(f3, "Voltage (V)")
           f5 == plt_title(f4, "Charge/Discharge Curve")
           f6 == plt_grid(f5, TRUE)
           f7 == plt_legend(f6)
       IN  IF ~DirUsable(D, output_file) THEN Raised(f7, Fs, OpenError(D, output_file))
           ELSE Returned(plt_close(f7), plt_savefig(f7, Fs, output_file), output_file)

plot_voltage_curve(F, D, Fs, data, output_file) ==
  LET f1 == plt_figure(F) IN
  IF "time" \notin DOMAIN data THEN Raised(f1, Fs, KeyError("time"))
  ELSE IF "voltage" \notin DOMAIN data THEN Raised(f1, Fs, KeyError("voltage"))
  ELSE LET f2 == plt_plot(f1, data["time"], data["voltage"], "Voltage", "b")
           f3 == plt_xlabel(f2, "Time (s)")
           f4 == plt_ylabel(f3, "Voltage (V)")
           f5 == plt_title(f4, "Charge/Discharge Curve")
           f6 == plt_grid(f5, TRUE)
           f7 == plt_legend(f6)
       IN  IF ~DirUsable(D, output_file) THEN Raised(f7, Fs, OpenError(D, output_file))
           ELSE Returned(plt_close(f7), plt_savefig(f7, Fs, output_file), output_file)

plot_impedance(F, D, Fs, data, output_file) ==
  LET f1 == plt_figure(F) IN
  IF "frequency" \notin DOMAIN data THEN Raised(f1, Fs, KeyError("frequency"))
  ELSE IF "impedance" \notin DOMAIN data THEN Raised(f1, Fs, KeyError("impedance"))
  ELSE LET f2 == plt_plot(f1, data["frequency"], data["impedance"], "Impedance", "g")
           f3 == plt_xscale(f2, "log")
           f4 == plt_xlabel(f3, "Frequency (Hz)")
           f5 == plt_ylabel(f4, "Impedance (Ohms)")
           f6 == plt_title(f5, "Impedance Spectrum")
           f7 == plt_grid(f6, TRUE)
           f8 == plt_legend(f7)
       IN  IF ~DirUsable(D, output_file) THEN Raised(f8, Fs, OpenError(D, output_file))
           ELSE Returned(plt_close(f8), plt_savefig(f8, Fs, output_file), output_file)

plot_xrd(F, D, Fs, data, output_file) ==
  LET f1 == plt_figure(F) IN
  IF "2theta" \notin DOMAIN data THEN Raised(f1, Fs, KeyError("2theta"))
  ELSE IF "intensity" \notin DOMAIN data THEN Raised(f1, Fs, KeyError("intensity"))
  ELSE LET f2 == plt_plot(f1, data["2theta"], data["intensity"], "XRD/TEM", "r")
           f3 == plt_xlabel(f2, "2theta (degrees)")
           f4 == plt_ylabel(f3, "Intensity (a.u.)")
           f5 == plt_title(f4, "XRD/TEM Plot")
           f6 == plt_grid(f5, TRUE)
           f7 == plt_legend(f6)
       IN  IF ~DirUsable(D, output_file) THEN Raised(f7, Fs, OpenError(D, output_file))
           ELSE Returned(plt_close(f7), plt_savefig(f7, Fs, output_file), output_file)

plot_capacity_vs_cycle(F, D, Fs, data, output_file) ==
  LET f1 == plt_figure(F) IN
  IF "cycle" \notin DOMAIN data THEN Raised(f1, Fs, KeyError("cycle"))
  ELSE IF "capacity" \notin DOMAIN data THEN Raised(f1, Fs, KeyError("capacity"))
  ELSE LET f2 == plt_plot(f1, data["cycle"], data["capacity"], "Capacity", "m")
           f3 == plt_xlabel(f2, "Cycle Number")
           f4 == plt_ylabel(f3, "Capacity (Ah)")
           f5 == plt_title(f4, "Capacity vs Cycle")
           f6 == plt_grid(f5, TRUE)
           f7 == plt_legend(f6)
       IN  IF ~DirUsable(D, output_file) THEN Raised(f7, Fs, OpenError(D, output_file))
           ELSE Returned(plt_close(f7), plt_savefig(f7, Fs, output_file), output_file)

(***************************************************************************)
(* State.                                                                  *)
(***************************************************************************)
VARIABLES
  active,              \* the processes (Python interpreters) of the behaviour
  outdir,              \* what is at the output directory's path
  files,               \* the chart files: path -> picture
  figs,                \* per process: pyplot's figure stack
  pc,                  \* per process: position in generate_report / "caller"
  args,                \* per process: the arguments of generate_report
  data,                \* per process: generate_report's local `data` once loaded
  smoothed_voltage,    \* per process: local of generate_report
  smoothed_impedance,  \* per process: local of generate_report
  steps,               \* per process: the steps of the current call, in order
  calls,               \* per process: library routines the current call invoked
  err,                 \* per process: the exception that ended the current call
  written,             \* per process: chart files written by the current call
  printed,             \* per process: lines printed by the current call
  call,                \* the last direct call of a function by the caller
  ncalls               \* number of direct calls made so far

vars == <<active, outdir, files, figs, pc, args, data, smoothed_voltage,
          smoothed_impedance, steps, calls, err, written, printed, call, ncalls>>

Procs == {1, 2}

\* bound on the number of direct calls in one behaviour
MaxCalls == 3

DefaultWindow == 11
DefaultPolyorder == 3

Windows == {1, 3, DefaultWindow}
Polyorders == {0, 1, 2, DefaultPolyorder}

ChartNames == <<"charge_discharge_curve.png", "impedance_spectrum.png",
                "xrd_tem.png", "capacity_vs_cycle.png">>

ChartPath(k) == os_path_join(OutputDir, ChartNames[k])

StalePicture == [EmptyFig EXCEPT !.title = "stale"]

Args == [data : InputPaths, file_format : FormatTags, noise_method : MethodTags,
         smooth_window : Windows, smooth_polyorder : Polyorders]

\* arguments of the two interleaved runs
RaceArgs == [data : {"a.csv", "no_impedance.csv", "missing.csv"}, file_format : {"csv", "xml"},
             noise_method : {"zscore", "median"},
             smooth_window : {DefaultWindow}, smooth_polyorder : {DefaultPolyorder}]

NoCall == [fn |-> "", input |-> "", output |-> <<Cwd, "">>]

\* what the output directory may hold before a run: nothing, or an earlier run's charts
InitialFiles(D) ==
  IF D # "dir" THEN {[q \in {} |-> StalePicture]}
  ELSE {[q \in S |-> StalePicture] : S \in {{}, {ChartPath(1)}, {ChartPath(k) : k \in 1..4}}}

InitLocals ==
  /\ data = [p \in Procs |-> GarbageTable]
  /\ smoothed_voltage = [p \in Procs |-> <<>>]
  /\ smoothed_impedance = [p \in Procs |-> <<>>]
  /\ steps = [p \in Procs |-> <<>>]
  /\ calls = [p \in Procs |-> <<>>]
  /\ err = [p \in Procs |-> NoError]
  /\ written = [p \in Procs |-> {}]
  /\ printed = [p \in Procs |-> <<>>]
  /\ figs = [p \in Procs |-> <<>>]
  /\ call = NoCall
  /\ ncalls = 0

\* one run of generate_report
Init ==
  /\ active = {1}
  /\ outdir \in {"absent", "dir", "file"}
  /\ files \in InitialFiles(outdir)
  /\ pc = [p \in Procs |-> IF p \in active THEN "check_dir" ELSE "caller"]
  /\ args \in {[p \in Procs |-> a] : a \in Args}
  /\ InitLocals

\* two runs of generate_report in two processes, same output directory
InitRace ==
  /\ active = {1, 2}
  /\ outdir \in {"absent", "dir"}
  /\ files \in InitialFiles(outdir)
  /\ pc = [p \in Procs |-> "check_dir"]
  /\ args \in [Procs -> RaceArgs]
  /\ InitLocals

\* a caller invoking the functions directly, in one process
InitCalls ==
  /\ active = {1}
  /\ outdir \in {"absent", "dir"}
  /\ files = [q \in {} |-> StalePicture]
  /\ pc = [p \in Procs |-> "caller"]
  /\ args = [p \in Procs |-> [data |-> "a.csv", file_format |-> "csv", noise_method |-> "savgol",
                              smooth_window |-> DefaultWindow, smooth_polyorder |-> DefaultPolyorder]]
  /\ InitLocals

(***************************************************************************)
(* generate_report, one action per statement.                              *)
(***************************************************************************)
Set(f, p, v) == [f EXCEPT ![p] = v]
Push(f, p, v) == [f EXCEPT ![p] = Append(@, v)]

locals == <<data, smoothed_voltage, smoothed_impedance>>
direct == <<call, ncalls>>

\* variant: the failed statement is tried again
Raise_retry(p, e) ==
  /\ err' = Set(err, p, e)
  /\ pc' = pc

\* an exception leaves generate_report: nothing catches it
Raise(p, e) ==
  /\ err' = Set(err, p, e)
  /\ pc' = Set(pc, p, "failed")

\* if not os.path.exists(output_dir):
CheckDir(p) ==
  /\ pc[p] = "check_dir"
  /\ calls' = Push(calls, p, "os.path.exists")
  /\ pc' = Set(pc, p, IF os_path_exists(outdir) THEN "load" ELSE "makedirs")
  /\ UNCHANGED <<active, outdir, files, figs, args, locals, steps, err, written, printed, direct>>

\* os.makedirs(output_dir): FileExistsError when the path exists by now
MakeDirs(p) ==
  /\ pc[p] = "makedirs"
  /\ calls' = Push(calls, p, "os.makedirs")
  /\ IF os_path_exists(outdir)
     THEN Raise(p, "FileExistsError") /\ UNCHANGED outdir
     ELSE outdir' = "dir" /\ pc' = Set(pc, p, "load") /\ UNCHANGED err
  /\ UNCHANGED <<active, files, figs, args, locals, steps, written, printed, direct>>

\* data = load_data(file_path=data, file_format=file_format)
Load(p) ==
  /\ pc[p] = "load"
  /\ steps' = Push(steps, p, "Load")
  /\ \E r \in load_data(args[p].data, args[p].file_format) :
       /\ calls' = Set(calls, p, calls[p] \o r.calls)
       /\ printed' = Set(printed, p, printed[p] \o r.printed)
       /\ IF r.err = NoError
          THEN data' = Set(data, p, r.value) /\ pc' = Set(pc, p, "smooth_voltage") /\ UNCHANGED err
          ELSE Raise(p, r.err) /\ UNCHANGED data
  /\ UNCHANGED <<active, outdir, files, figs, args, smoothed_voltage, smoothed_impedance,
                 written, direct>>

\* variant: the smoothed series is written back into the table
SmoothVoltage_writeback(p) ==
  /\ pc[p] = "smooth_voltage"
  /\ steps' = Push(steps, p, "Smooth(voltage)")
  /\ IF "voltage" \notin DOMAIN data[p]
     THEN Raise(p, KeyError("voltage")) /\ UNCHANGED <<calls, smoothed_voltage, data>>
     ELSE LET r == smooth_data(data[p]["voltage"], args[p].noise_method,
                               args[p].smooth_window, args[p].smooth_polyorder)
          IN  /\ calls' = Set(calls, p, calls[p] \o r.calls)
              /\ IF r.err = NoError
                 THEN /\ smoothed_voltage' = Set(smoothed_voltage, p, r.value)
                      /\ data' = Set(data, p, [data[p] EXCEPT !["voltage"] = r.value])
                      /\ pc' = Set(pc, p, "smooth_impedance")
                      /\ UNCHANGED err
                 ELSE Raise(p, r.err) /\ UNCHANGED <<smoothed_voltage, data>>
  /\ UNCHANGED <<active, outdir, files, figs, args, smoothed_impedance,
                 written, printed, direct>>

\* smoothed_voltage = smooth_data(data['voltage'], ...)
SmoothVoltage(p) ==
  /\ pc[p] = "smooth_voltage"
  /\ steps' = Push(steps, p, "Smooth(voltage)")
  /\ IF "voltage" \notin DOMAIN data[p]
     THEN Raise(p, KeyError("voltage")) /\ UNCHANGED <<calls, smoothed_voltage>>
     ELSE LET r == smooth_data(data[p]["voltage"], args[p].noise_method,
                               args[p].smooth_window, args[p].smooth_polyorder)
          IN  /\ calls' = Set(calls, p, calls[p] \o r.calls)
              /\ IF r.err = NoError
                 THEN /\ smoothed_voltage' = Set(smoothed_voltage, p, r.value)
                      /\ pc' = Set(pc, p, "smooth_impedance")
                      /\ UNCHANGED err
                 ELSE Raise(p, r.err) /\ UNCHANGED smoothed_voltage
  /\ UNCHANGED <<active, outdir, files, figs, args, data, smoothed_impedance,
                 written, printed, direct>>

\* smoothed_impedance = smooth_data(data['impedance'], ...)
SmoothImpedance(p) ==
  /\ pc[p] = "smooth_impedance"
  /\ steps' = Push(steps, p, "Smooth(impedance)")
  /\ IF "impedance" \notin DOMAIN data[p]
     THEN Raise(p, KeyError("impedance")) /\ UNCHANGED <<calls, smoothed_impedance>>
     ELSE LET r == smooth_data(data[p]["impedance"], args[p].noise_method,
                               args[p].smooth_window, args[p].smooth_polyorder)
          IN  /\ calls' = Set(calls, p, calls[p] \o r.calls)
              /\ IF r.err = NoError
                 THEN /\ smoothed_impedance' = Set(smoothed_impedance, p, r.value)
                      /\ pc' = Set(pc, p, "plot_voltage")
                      /\ UNCHANGED err
                 ELSE Raise(p, r.err) /\ UNCHANGED smoothed_impedance
  /\ UNCHANGED <<active, outdir, files, figs, args, data, smoothed_voltage,
                 written, printed, direct>>

\* variant: a renderer's failure is recorded and the run goes on
Rendered_swallow(p, r, next) ==
  /\ figs' = Set(figs, p, r.figs)
  /\ files' = r.files
  /\ written' = Set(written, p, written[p] \cup r.wrote)
  /\ err' = Set(err, p, r.err)
  /\ pc' = Set(pc, p, next)

\* variant: a renderer's failure removes the charts the run has written
Rendered_rollback(p, r, next) ==
  /\ figs' = Set(figs, p, r.figs)
  /\ files' = IF r.err = NoError THEN r.files
              ELSE [q \in (DOMAIN r.files) \ written[p] |-> r.files[q]]
  /\ written' = Set(written, p, written[p] \cup r.wrote)
  /\ err' = Set(err, p, r.err)
  /\ pc' = Set(pc, p, IF r.err = NoError THEN next ELSE "failed")

\* the effect of one renderer call made by process p, with outcome r
Rendered(p, r, next) ==
  /\ figs' = Set(figs, p, r.figs)
  /\ files' = r.files
  /\ written' = Set(written, p, written[p] \cup r.wrote)
  /\ err' = Set(err, p, r.err)
  /\ pc' = Set(pc, p, IF r.err = NoError THEN next ELSE "failed")

\* plot_voltage_curve(data, output_file=os.path.join(output_dir, ...))
PlotVoltage(p) ==
  /\ pc[p] = "plot_voltage"
  /\ steps' = Push(steps, p, "Render voltage")
  /\ Rendered(p, plot_voltage_curve(figs[p], outdir, files, data[p], ChartPath(1)), "plot_impedance")
  /\ UNCHANGED <<active, outdir, args, locals, calls, printed, direct>>

PlotImpedance(p) ==
  /\ pc[p] = "plot_impedance"
  /\ steps' = Push(steps, p, "Render impedance")
  /\ Rendered(p, plot_impedance(figs[p], outdir, files, data[p], ChartPath(2)), "plot_xrd")
  /\ UNCHANGED <<active, outdir, args, locals, calls, printed, direct>>

PlotXrd(p) ==
  /\ pc[p] = "plot_xrd"
  /\ steps' = Push(steps, p, "Render XRD")
  /\ Rendered(p, plot_xrd(figs[p], outdir, files, data[p], ChartPath(3)), "plot_capacity")
  /\ UNCHANGED <<active, outdir, args, locals, calls, printed, direct>>

PlotCapacity(p) ==
  /\ pc[p] = "plot_capacity"
  /\ steps' = Push(steps, p, "Render capacity")
  /\ Rendered(p, plot_capacity_vs_cycle(figs[p], outdir, files, data[p], ChartPath(4)), "print")
  /\ UNCHANGED <<active, outdir, args, locals, calls, printed, direct>>

Notice == "report charts generated and saved"

\* print(...): the completion notice, then the function returns
PrintDone(p) ==
  /\ pc[p] = "print"
  /\ steps' = Push(steps, p, "Done")
  /\ printed' = Push(printed, p, Notice)
  /\ pc' = Set(pc, p, "done")
  /\ UNCHANGED <<active, outdir, files, figs, args, locals, calls, err, written, direct>>

generate_report(p) ==
  \/ CheckDir(p)
  \/ MakeDirs(p)
  \/ Load(p)
  \/ SmoothVoltage(p)
  \/ SmoothImpedance(p)
  \/ PlotVoltage(p)
  \/ PlotImpedance(p)
  \/ PlotXrd(p)
  \/ PlotCapacity(p)
  \/ PrintDone(p)

Next == \E p \in Procs : generate_report(p)

Spec == Init /\ [][Next]_vars

SpecRace == InitRace /\ [][Next]_vars

(***************************************************************************)
(* Direct calls of the renderers by a caller, in process 1.                *)
(***************************************************************************)
DirectInputs == {"a.csv", "b.csv", "no_impedance.csv", "no_time.csv"}
CustomName == "custom.png"

\* the effect of one direct renderer call with outcome r
Called(fn, input, output, r) ==
  /\ ncalls < MaxCalls
  /\ pc[1] = "caller"
  /\ ncalls' = ncalls + 1
  /\ call' = [fn |-> fn, input |-> input, output |-> output]
  /\ figs' = Set(figs, 1, r.figs)
  /\ files' = r.files
  /\ written' = Set(written, 1, r.wrote)
  /\ err' = Set(err, 1, r.err)
  /\ UNCHANGED <<active, outdir, pc, args, locals, steps, calls, printed>>

CallPlotVoltage ==
  \E input \in DirectInputs, name \in {ChartNames[1], CustomName} :
    Called("plot_voltage_curve", input, <<Cwd, name>>,
           plot_voltage_curve(figs[1], outdir, files, InputFile(input).table, <<Cwd, name>>))

CallPlotImpedance ==
  \E input \in DirectInputs, name \in {ChartNames[2], CustomName} :
    Called("plot_impedance", input, <<Cwd, name>>,
           plot_impedance(figs[1], outdir, files, InputFile(input).table, <<Cwd, name>>))

CallPlotXrd ==
  \E input \in DirectInputs, name \in {ChartNames[3], CustomName} :
    Called("plot_xrd", input, <<Cwd, name>>,
           plot_xrd(figs[1], outdir, files, InputFile(input).table, <<Cwd, name>>))

CallPlotCapacity ==
  \E input \in DirectInputs, name \in {ChartNames[4], CustomName} :
    Called("plot_capacity_vs_cycle", input, <<Cwd, name>>,
           plot_capacity_vs_cycle(figs[1], outdir, files, InputFile(input).table, <<Cwd, name>>))

NextCalls == CallPlotVoltage \/ CallPlotImpedance \/ CallPlotXrd \/ CallPlotCapacity

SpecCalls == InitCalls /\ [][NextCalls]_vars

(***************************************************************************)
(* Properties.                                                             *)
(***************************************************************************)
StepOrder == <<"Load", "Smooth(voltage)", "Smooth(impedance)", "Render voltage",
               "Render impedance", "Render XRD", "Render capacity", "Done">>

IsPrefix(s, t) == Len(s) <= Len(t) /\ \A i \in 1..Len(s) : s[i] = t[i]

IsReader(c) == c \in {supported_formats[f] : f \in DOMAIN supported_formats}
IsTransform(c) == c \in {"savgol_filter", "rolling.mean", "stats.zscore"}
ReadersInvoked(p) == SelectSeq(calls[p], IsReader)
TransformsApplied(p) == SelectSeq(calls[p], IsTransform)

TransformOf(method) ==
  CASE method = "savgol" -> "savgol_filter"
    [] method = "moving_average" -> "rolling.mean"
    [] method = "zscore" -> "stats.zscore"

SupportedMethods == {"savgol", "moving_average", "zscore"}

\* the picture of chart k for a table: one line over the raw columns
RawChart(k, d) ==
  CASE k = 1 -> [title |-> "Charge/Discharge Curve", xlabel |-> "Time (s)", ylabel |-> "Voltage (V)",
                 xscale |-> "linear", grid |-> TRUE, legend |-> TRUE,
                 lines |-> <<[x |-> d["time"], y |-> d["voltage"], label |-> "Voltage", color |-> "b"]>>]
    [] k = 2 -> [title |-> "Impedance Spectrum", xlabel |-> "Frequency (Hz)", ylabel |-> "Impedance (Ohms)",
                 xscale |-> "log", grid |-> TRUE, legend |-> TRUE,
                 lines |-> <<[x |-> d["frequency"], y |-> d["impedance"], label |-> "Impedance", color |-> "g"]>>]
    [] k = 3 -> [title |-> "XRD/TEM Plot", xlabel |-> "2theta (degrees)", ylabel |-> "Intensity (a.u.)",
                 xscale |-> "linear", grid |-> TRUE, legend |-> TRUE,
                 lines |-> <<[x |-> d["2theta"], y |-> d["intensity"], label |-> "XRD/TEM", color |-> "r"]>>]
    [] k = 4 -> [title |-> "Capacity vs Cycle", xlabel |-> "Cycle Number", ylabel |-> "Capacity (Ah)",
                 xscale |-> "linear", grid |-> TRUE, legend |-> TRUE,
                 lines |-> <<[x |-> d["cycle"], y |-> d["capacity"], label |-> "Capacity", color |-> "m"]>>]

Failed(p) == err[p] # NoError

\* C1: the steps of a run are a prefix of Load, Smooth(voltage),
\* Smooth(impedance), Render voltage, Render impedance, Render XRD, Render
\* capacity, Done (so each occurs at most once, in that order); once a step
\* has failed no further step is executed and Done is not reached.
C1_LinearSequence ==
  /\ [](\A p \in active : /\ IsPrefix(steps[p], StepOrder)
                           /\ Failed(p) => pc[p] # "done" /\ (steps[p] = <<>> \/ steps[p][Len(steps[p])] # "Done"))
  /\ [][\A p \in active : Failed(p) => steps'[p] = steps[p]]_vars

C1_Witness == pc[1] = "failed" /\ Len(steps[1]) = 5 /\ err[1] = KeyError("frequency")

\* C2: from any initial state of the output path, the directory step does
\* not fail, and whenever a run has started loading or has written a chart
\* file the output directory exists.
C2_DirectoryBeforeLoad ==
  \A p \in active :
    /\ Failed(p) => steps[p] # <<>>
    /\ (steps[p] # <<>> \/ written[p] # {}) => outdir = "dir"

\* C3: the completion notice is printed only after Load, both smoothing
\* steps and the four renderers succeeded, with the four chart files in the
\* output directory; a run with a failed step prints no notice.
NoticePrinted(p) == \E i \in 1..Len(printed[p]) : printed[p][i] = Notice

C3_NoticeOnlyOnSuccess ==
  \A p \in active :
    /\ NoticePrinted(p) =>
         /\ steps[p] = StepOrder
         /\ ~Failed(p)
         /\ outdir = "dir"
         /\ written[p] = {ChartPath(k) : k \in 1..4}
         /\ \A k \in 1..4 : ChartPath(k) \in DOMAIN files
    /\ Failed(p) => ~NoticePrinted(p)

C3_Witness == NoticePrinted(1) /\ pc[1] = "done"

\* C4: once Load has run, an unsupported format tag has produced the
\* unsupported-format error with no reader invoked; a supported tag has
\* invoked exactly its own reader, and a failure of Load is then one of
\* that reader's own errors.
C4_LoadDispatch ==
  \A p \in active :
    steps[p] # <<>> =>
      IF args[p].file_format \notin DOMAIN supported_formats
      THEN /\ err[p] = "ValueError:unsupported_format"
           /\ ReadersInvoked(p) = <<>>
           /\ steps[p] = <<"Load">>
      ELSE /\ ReadersInvoked(p) = <<supported_formats[args[p].file_format]>>
           /\ (Failed(p) /\ Len(steps[p]) = 1) =>
                \E r \in Reader(supported_formats[args[p].file_format], args[p].data) :
                   r.err # NoError /\ err[p] = r.err

C4_Witness == args[1].file_format = "xml" /\ pc[1] = "failed" /\ steps[1] = <<"Load">>

\* C5: each smooth_data call of a run with a supported method tag applied
\* exactly that tag's transform; with an unsupported tag no transform is
\* applied, the call fails with the unsupported-method error, the run goes
\* no further than Smooth(voltage) and writes no chart file.
SmoothCalls(p) ==
  (IF Len(steps[p]) >= 2 /\ "voltage" \in DOMAIN data[p] THEN 1 ELSE 0)
  + (IF Len(steps[p]) >= 3 /\ "impedance" \in DOMAIN data[p] THEN 1 ELSE 0)

C5_SmoothDispatch ==
  \A p \in active :
    IF args[p].noise_method \in SupportedMethods
    THEN TransformsApplied(p) = [i \in 1..SmoothCalls(p) |-> TransformOf(args[p].noise_method)]
    ELSE /\ TransformsApplied(p) = <<>>
         /\ Len(steps[p]) <= 2
         /\ written[p] = {}
         /\ Len(steps[p]) = 2 =>
              /\ pc[p] = "failed"
              /\ "voltage" \in DOMAIN data[p] => err[p] = "ValueError:unsupported_method"

C5_Witness ==
  /\ args[1].noise_method = "median"
  /\ steps[1] = <<"Load", "Smooth(voltage)">>
  /\ err[1] = "ValueError:unsupported_method"

\* C6: on a table with the time and voltage columns but no impedance
\* column, every direct call of plot_impedance fails with the missing-column
\* error and writes nothing, and every direct call of plot_voltage_curve
\* succeeds and leaves the voltage chart of that table in its output file,
\* whatever calls came before.
LacksImpedance(d) == {"time", "voltage"} \subseteq DOMAIN d /\ "impedance" \notin DOMAIN d

C6_RenderersIndependent ==
  LET d == InputFile(call.input).table IN
  (call.fn # "" /\ LacksImpedance(d)) =>
    /\ call.fn = "plot_impedance" =>
         /\ err[1] = KeyError("impedance")
         /\ written[1] = {}
    /\ call.fn = "plot_voltage_curve" =>
         /\ err[1] = NoError
         /\ written[1] = {call.output}
         /\ call.output \in DOMAIN files
         /\ files[call.output] = RawChart(1, d)

\* plot_voltage_curve succeeding after a plot_impedance call has failed
C6_Witness ==
  /\ call.fn = "plot_voltage_curve"
  /\ LacksImpedance(InputFile(call.input).table)
  /\ err[1] = NoError
  /\ ncalls >= 2
  /\ figs[1] # <<>>

\* C7: a failed run stays failed with its effects in place: when the k-th
\* renderer failed, exactly the charts of renderers 1..k-1 were written by
\* the run and they are in the output directory; when Load or a smoothing
\* step failed, the run wrote no chart and a directory it created is still
\* there.  A table without the voltage (impedance) column fails in
\* Smooth(voltage) (Smooth(impedance)) with the missing-column error.
C7_FailurePropagates ==
  \A p \in active :
    LET n == Len(steps[p]) IN
    /\ Failed(p) =>
         /\ pc[p] = "failed"
         /\ n >= 4 =>
              /\ written[p] = {ChartPath(j) : j \in 1..(n - 4)}
              /\ \A j \in 1..(n - 4) :
                   ChartPath(j) \in DOMAIN files /\ files[ChartPath(j)] = RawChart(j, data[p])
         /\ n <= 3 =>
              /\ written[p] = {}
              /\ (\E i \in 1..Len(calls[p]) : calls[p][i] = "os.makedirs") => outdir = "dir"
    /\ (n >= 2 /\ "voltage" \notin DOMAIN data[p]) =>
         n = 2 /\ err[p] = KeyError("voltage")
    /\ (n >= 3 /\ "impedance" \notin DOMAIN data[p]) =>
         n = 3 /\ err[p] = KeyError("impedance")

\* the third renderer failed in a directory the run created itself
C7_Witness ==
  /\ pc[1] = "failed"
  /\ Len(steps[1]) = 6
  /\ written[1] = {ChartPath(1), ChartPath(2)}
  /\ \E i \in 1..Len(calls[1]) : calls[1][i] = "os.makedirs"

\* C8: the smoothing steps leave the loaded table as it is, and the four
\* charts of a finished run are the charts of the input file's raw columns,
\* whatever the smoothing method, window and polynomial order.
C8_SmoothingHasNoEffect ==
  /\ [](\A p \in active :
          pc[p] = "done" =>
            \A k \in 1..4 : files[ChartPath(k)] = RawChart(k, InputFile(args[p].data).table))
  /\ [][\A p \in active :
          pc[p] \in {"smooth_voltage", "smooth_impedance"} => data'[p] = data[p]]_vars

\* a finished run whose smoothed voltage differs from the raw voltage
C8_Witness ==
  /\ pc[1] = "done"
  /\ args[1].noise_method = "moving_average"
  /\ smoothed_voltage[1] # data[1]["voltage"]

\* C9: when two runs share an output directory, neither fails in the
\* directory-creation step: a failed run has at least started Load.
C9_NoCreationFailure ==
  \A p \in active : Failed(p) => steps[p] # <<>>

\* C10: no renderer call changes the number of open figures.
C10_FiguresReleased ==
  [][Len(figs'[1]) = Len(figs[1])]_vars

=============================================================================
